---- MODULE Spec2Model ----
(***************************************************************************)
(* folly::coro::Task / TaskWithExecutor (folly/coro/Task.h) as a state     *)
(* machine: coroutine frames with their promises, the move-only handles    *)
(* that own them, the executors' work queues, cancellation tokens, and     *)
(* the terminal-point dispatch done by TaskPromiseBase::FinalAwaiter.      *)
(***************************************************************************)
EXTENDS Integers, Sequences, FiniteSets, TLC

(* ---------------- bounds of the model ---------------- *)
\* coroutine frames that can be allocated in one behaviour
NumCoros == 3
\* Task / TaskWithExecutor objects the caller can hold at one time
MaxHandles == 2
\* ScopeExitTasks one coroutine can attach
MaxScopeExits == 1
\* ScopeExitTasks one coroutine attaches where attaching again is looked at
MaxChain == 2
\* coroutines that have a ScopeExitTask attached at one time
MaxFinalized == 1

Coros == 1..NumCoros
Handles == 1..MaxHandles
\* the executors, cancellation sources, values and exceptions of a run
Execs == {"X", "Y"}
\* the executor the caller binds its task to (the executors are alike)
CallerExecs == {"X"}
Tokens == {"tok"}
Values == {"v42"}
Errors == {"boom"}

(* ---------------- null values ---------------- *)
\* coroutine_handle{} : the null handle
NullCoro == 0
\* Executor::KeepAlive<>{} : no executor
NoExecutor == "none"
\* CancellationToken{} : the default token, on which cancellation can never
\* be requested
NoToken == "none"
\* the exception carried by co_cancelled (folly::OperationCancelled)
OperationCancelled == "OperationCancelled"
\* exception_wrapper{} : what a moved-from or absent exception_wrapper holds
NoException == "none"
\* the exception a throwing completion callback raises
CallbackError == "callbackError"

(* ---------------- Try<T> ---------------- *)
EmptyTry == [tag |-> "empty", val |-> "none"]
ValueTry(v) == [tag |-> "value", val |-> v]
ErrorTry(e) == [tag |-> "error", val |-> e]
hasException(t) == t.tag = "error"
Tries == {ValueTry(v) : v \in Values} \cup {ErrorTry(e) : e \in Errors}

(* ---------------- references to resumable things ---------------- *)
\* ExtendedCoroutineHandle: nothing, a Task coroutine, the InlineTaskDetached
\* coroutine made by startImpl for root c, or the ScopeExitTask attached to c
NoHandle == <<"none", 0>>
CoroRef(c) == <<"coro", c>>
DetachedRef(c) == <<"detached", c>>
ScopeExitRef(c) == <<"scopeExit", c>>

\* the ViaCoroutine that ViaIfAsyncAwaitable puts between a bound child and
\* the awaiting coroutine c: holds c and the request context saved at the await
ViaRef(c, ctx) == <<"via", c, ctx>>

\* one thread per executor, and the thread that calls start()
CallerThread == "caller"
Threads == Execs \cup {CallerThread}

(* ---------------- RequestContext ---------------- *)
\* the ambient request context of the thread that calls start()
CallerCtx == "callerCtx"
\* the ambient request context of an executor thread outside any unit of work
BaseCtx == "baseCtx"
\* a request context that a coroutine body installs
BodyCtx == "bodyCtx"
\* RequestContextScopeGuard on a thread's stack: what was ambient when the
\* scope was entered (ctx), and whether a guard restores it on exit (armed)
NoGuard == [kind |-> "none", armed |-> FALSE, ctx |-> "none"]
\* mutant: the unit of work sets the saved context without a scope guard
WorkGuard_Missing(amb) == [kind |-> "work", armed |-> FALSE, ctx |-> amb]
\* RequestContextScopeGuard contextScope{std::move(ctx)} in a unit of work,
\* entered with amb ambient
WorkGuard(amb) == [kind |-> "work", armed |-> TRUE, ctx |-> amb]

VARIABLES
  (* the caller's Task and TaskWithExecutor objects *)
  hkind,      \* hkind[h]: the type of handle object h, "none" if it holds nothing
  hcoro,      \* hcoro[h]: its coro_; NullCoro: moved from, or no object
  hexec,      \* hexec[h]: the executor unwrap() returned together with Task h
  (* coroutine frames *)
  frame,      \* frame[c]: where coroutine c is in its life
  promise,    \* promise[c]: the TaskPromise of coroutine c
  operand,    \* operand[c]: coro_ of the Task that the body of c co_awaits
  awaiter,    \* awaiter[c]: coro_ of the Task::Awaiter in the frame of c
  awaitMode,  \* awaitMode[c]: how c awaits its current child
  detachedAwaiter, \* detachedAwaiter[c]: coro_ of the TaskWithExecutor::Awaiter
              \* in the InlineTaskDetached frame made by startImpl for c
  (* executors and threads *)
  queue,      \* queue[x]: work submitted to executor x, not yet run
  cur,        \* cur[t]: what thread t is running
  ambient,    \* ambient[x]: the ambient RequestContext of executor thread x
  guard,      \* guard[x]: the RequestContextScopeGuard on the stack of x
  (* cancellation sources *)
  cancelled,  \* tokens on which cancellation has been requested
  (* observation *)
  safePointPassed, \* safePointPassed[c]: c went through a safe point since
              \* it was last resumed
  endedBy,    \* endedBy[c]: how the body of c reached its terminal point
  uses,       \* uses[c]: in order, what was done with c: "awaited", "launched",
              \* "launchedInline", or "droppedTask" / "droppedBound" when the
              \* handle object holding it destroyed it
  cbLog,      \* cbLog[c]: the results the launch callback of c was invoked with
  escaped,    \* escaped[c]: an exception left the body of the launch wrapper
              \* of c (thrown by the call of cb in its catch block)
  log         \* finalizer runs and callback invocations, in order

hvars == <<hkind, hcoro, hexec>>
cvars == <<frame, promise, operand, awaiter, awaitMode, detachedAwaiter>>
tvars == <<queue, cur, ambient, guard>>
ovars == <<safePointPassed, endedBy, uses, cbLog, escaped, log>>
vars == <<hkind, hcoro, hexec, frame, promise, operand, awaiter, awaitMode,
          detachedAwaiter, queue, cur, ambient, guard, cancelled,
          safePointPassed, endedBy, uses, cbLog, escaped, log>>

(* ---------------- TaskPromiseBase ---------------- *)
\* the promise as default-constructed when the coroutine frame is allocated
NewPromise ==
  [ result |-> EmptyTry,
    continuation |-> NoHandle,
    executor |-> NoExecutor,
    cancelToken |-> NoToken,
    hasCancelTokenOverride |-> FALSE,
    scopeExit |-> 0,
    scopeExitPrevious |-> 0,
    scopeExitContext |-> [continuation |-> NoHandle, asyncFrame |-> NullCoro,
                          executor |-> NoExecutor, ew |-> NoException,
                          set |-> FALSE, ran |-> 0],
    bypassExceptionThrowing |-> "INACTIVE",
    parentFrame |-> NoHandle,
    frameLinked |-> FALSE,
    unlinkDepth |-> 0 ]

\* mutant: a later call overwrites the token
setCancelToken_Overwrite(p, cancelToken) ==
  [p EXCEPT !.cancelToken = cancelToken, !.hasCancelTokenOverride = TRUE]

\* mutant: the token is marked as set but not stored
setCancelToken_NotStored(p, cancelToken) ==
  [p EXCEPT !.hasCancelTokenOverride = TRUE]

\* mutant: the call does nothing
setCancelToken_Ignored(p, cancelToken) == p

\* TaskPromiseBase::setCancelToken
setCancelToken(p, cancelToken) ==
  IF ~p.hasCancelTokenOverride
    THEN [p EXCEPT !.cancelToken = cancelToken, !.hasCancelTokenOverride = TRUE]
    ELSE p

\* Task::setExecutor
setExecutor(p, e) == [p EXCEPT !.executor = e]

\* CancellationToken::isCancellationRequested
isCancellationRequested(tok) == tok \in cancelled

\* how a body ended: what it did last, and with what
Ended(how, tag, val) == [how |-> how, tag |-> tag, val |-> val]
NotEnded == Ended("none", "empty", "none")

(* ---------------- Init ---------------- *)
Init ==
  /\ hkind = [h \in Handles |-> "none"]
  /\ hcoro = [h \in Handles |-> NullCoro]
  /\ hexec = [h \in Handles |-> NoExecutor]
  /\ frame = [c \in Coros |-> "none"]
  /\ promise = [c \in Coros |-> NewPromise]
  /\ operand = [c \in Coros |-> NullCoro]
  /\ awaiter = [c \in Coros |-> NullCoro]
  /\ awaitMode = [c \in Coros |-> "none"]
  /\ detachedAwaiter = [c \in Coros |-> NullCoro]
  /\ queue = [x \in Execs |-> <<>>]
  /\ cur = [t \in Threads |-> NoHandle]
  /\ ambient = [x \in Execs |-> BaseCtx]
  /\ guard = [x \in Execs |-> NoGuard]
  /\ cancelled = {}
  /\ safePointPassed = [c \in Coros |-> FALSE]
  /\ endedBy = [c \in Coros |-> NotEnded]
  /\ uses = [c \in Coros |-> <<>>]
  /\ cbLog = [c \in Coros |-> <<>>]
  /\ escaped = [c \in Coros |-> FALSE]
  /\ log = <<>>

(* ---------------- coroutine frames ---------------- *)
\* the coroutines held by the awaiter objects that live in the frames of S
HeldBy(S) == ({awaiter[d] : d \in S} \cup {operand[d] : d \in S}) \ {NullCoro}

\* the frames released when coroutine_handle::destroy() runs on the frames
\* of S: a frame's awaiter object is destroyed with it, and ~Awaiter
\* destroys the frame it holds
RECURSIVE DestroyedWith(_)
DestroyedWith(S) ==
  LET T == S \cup HeldBy(S)
  IN IF T = S THEN S ELSE DestroyedWith(T)

\* mutant: the awaiter in a destroyed frame does not destroy what it holds
DestroySet_NoCascade(c) == IF c = NullCoro THEN {} ELSE {c}

\* the frames released by  if (coro_) coro_.destroy();
DestroySet(c) == IF c = NullCoro THEN {} ELSE DestroyedWith({c})

\* mutant: the frames are not released
Destroy_Leak(D, f, a, P) ==
  /\ frame' = f
  /\ awaiter' = a
  /\ promise' = P

\* frame, awaiter and promise after the frames of D are destroyed (f, a, P:
\* what they are but for that)
Destroy(D, f, a, P) ==
  /\ frame' = [d \in Coros |-> IF d \in D THEN "destroyed" ELSE f[d]]
  /\ awaiter' = [d \in Coros |-> IF d \in D THEN NullCoro ELSE a[d]]
  /\ promise' = [d \in Coros |-> IF d \in D THEN NewPromise ELSE P[d]]

\* uses after `what` was done with each coroutine of D
Used(D, what) == [d \in Coros |-> IF d \in D THEN Append(uses[d], what) ELSE uses[d]]
\* what a handle object of type kind does when it destroys its coroutine
Dropped(kind) == IF kind = "Task" THEN "droppedTask" ELSE "droppedBound"

\* the caller launches one task in a behaviour
NothingLaunched ==
  \A d \in Coros : detachedAwaiter[d] = NullCoro /\ cbLog[d] = <<>>

(* ---------------- the caller's handle objects ---------------- *)
Holds(h) == hcoro[h] # NullCoro
HasFree == \E h \in Handles : ~Holds(h)
\* where a newly constructed handle object is put
FreeHandle == CHOOSE h \in Handles :
                /\ ~Holds(h)
                /\ \A g \in Handles : ~Holds(g) => h <= g
\* no handle object is paired with an executor returned by unwrap()
NoReturnedExecutor == [h \in Handles |-> NoExecutor]

\* mutant: coro_ is copied, the source keeps it
TakeFrom_Copy(src, kind) ==
  /\ hkind' = [hkind EXCEPT ![FreeHandle] = kind]
  /\ hcoro' = [hcoro EXCEPT ![FreeHandle] = hcoro[src]]
  /\ hexec' = NoReturnedExecutor

\* the new handle object of type kind is constructed holding exchange(coro_, {})
\* of handle src
TakeFrom(src, kind) ==
  /\ hkind' = [hkind EXCEPT ![src] = "none", ![FreeHandle] = kind]
  /\ hcoro' = [hcoro EXCEPT ![src] = NullCoro, ![FreeHandle] = hcoro[src]]
  /\ hexec' = NoReturnedExecutor

\* mutant: initial_suspend() does not suspend, the body starts at the call
CreateTask_Eager(c) ==
  /\ NothingLaunched
  /\ frame[c] = "none"
  /\ \A d \in Coros : d < c => frame[d] # "none"
  /\ HasFree
  /\ frame' = [frame EXCEPT ![c] = "running"]
  /\ promise' = [promise EXCEPT ![c] = NewPromise]
  /\ hkind' = [hkind EXCEPT ![FreeHandle] = "Task"]
  /\ hcoro' = [hcoro EXCEPT ![FreeHandle] = c]
  /\ hexec' = NoReturnedExecutor
  /\ UNCHANGED <<operand, awaiter, awaitMode, detachedAwaiter, tvars, cancelled, ovars>>

\* calling a coroutine function: the frame is allocated, the promise is
\* constructed, get_return_object() makes the Task and initial_suspend()
\* suspends the coroutine before its body
CreateTask(c) ==
  /\ NothingLaunched
  /\ frame[c] = "none"
  /\ \A d \in Coros : d < c => frame[d] # "none"
  /\ HasFree
  /\ frame' = [frame EXCEPT ![c] = "initial"]
  /\ promise' = [promise EXCEPT ![c] = NewPromise]
  /\ hkind' = [hkind EXCEPT ![FreeHandle] = "Task"]
  /\ hcoro' = [hcoro EXCEPT ![FreeHandle] = c]
  /\ hexec' = NoReturnedExecutor
  /\ UNCHANGED <<operand, awaiter, awaitMode, detachedAwaiter, tvars, cancelled, ovars>>

\* Task(Task&&) and TaskWithExecutor(TaskWithExecutor&&)
MoveConstruct(h) ==
  /\ NothingLaunched
  /\ Holds(h) /\ HasFree
  /\ TakeFrom(h, hkind[h])
  /\ UNCHANGED <<cvars, tvars, cancelled, ovars>>

\* operator=(Task t) as  dst = std::move(src): t is move-constructed from
\* src, swapped with dst, and destroyed with what dst held
MoveAssign(dst, src) ==
  /\ NothingLaunched
  /\ dst # src
  /\ Holds(dst) /\ Holds(src) /\ hkind[dst] = hkind[src]
  /\ hcoro' = [hcoro EXCEPT ![dst] = hcoro[src], ![src] = NullCoro]
  /\ hkind' = [hkind EXCEPT ![src] = "none"]
  /\ hexec' = NoReturnedExecutor
  /\ Destroy(DestroySet(hcoro[dst]), frame, awaiter, promise)
  /\ uses' = Used(DestroySet(hcoro[dst]), Dropped(hkind[dst]))
  /\ UNCHANGED <<operand, awaitMode, detachedAwaiter, tvars, cancelled,
                 safePointPassed, endedBy, cbLog, escaped, log>>

\* Task::swap and TaskWithExecutor::swap
Swap(a, b) ==
  /\ NothingLaunched
  /\ a < b
  /\ Holds(a) /\ Holds(b) /\ hkind[a] = hkind[b]
  /\ hcoro' = [hcoro EXCEPT ![a] = hcoro[b], ![b] = hcoro[a]]
  /\ hexec' = NoReturnedExecutor
  /\ UNCHANGED <<hkind, cvars, tvars, cancelled, ovars>>

\* ~Task and ~TaskWithExecutor
Drop(h) ==
  /\ Holds(h)
  /\ hcoro' = [hcoro EXCEPT ![h] = NullCoro]
  /\ hkind' = [hkind EXCEPT ![h] = "none"]
  /\ hexec' = NoReturnedExecutor
  /\ Destroy(DestroySet(hcoro[h]), frame, awaiter, promise)
  /\ uses' = Used(DestroySet(hcoro[h]), Dropped(hkind[h]))
  /\ UNCHANGED <<operand, awaitMode, detachedAwaiter, tvars, cancelled,
                 safePointPassed, endedBy, cbLog, escaped, log>>

\* Task::scheduleOn (and co_withExecutor, which calls it)
scheduleOn(h, executor) ==
  /\ NothingLaunched
  /\ Holds(h) /\ hkind[h] = "Task" /\ HasFree
  /\ promise' = [promise EXCEPT ![hcoro[h]] = setExecutor(@, executor)]
  /\ TakeFrom(h, "TaskWithExecutor")
  /\ UNCHANGED <<frame, operand, awaiter, awaitMode, detachedAwaiter, tvars, cancelled, ovars>>

\* mutant: the executor is copied out of the promise, not moved
unwrap_pair_ExecutorLeft(p) == [promise |-> p, executor |-> p.executor]

\* TaskWithExecutor::unwrap on the promise p of coro_: the promise afterwards
\* and the executor of the returned pair
unwrap_pair(p) ==
  [promise |-> [p EXCEPT !.executor = NoExecutor], executor |-> p.executor]

\* TaskWithExecutor::unwrap: the Task of the returned pair is put in a new
\* handle object, the executor of the pair beside it
unwrap(h) ==
  /\ NothingLaunched
  /\ Holds(h) /\ hkind[h] = "TaskWithExecutor" /\ HasFree
  /\ LET r == unwrap_pair(promise[hcoro[h]])
     IN /\ promise' = [promise EXCEPT ![hcoro[h]] = r.promise]
        /\ hexec' = [NoReturnedExecutor EXCEPT ![FreeHandle] = r.executor]
  /\ hkind' = [hkind EXCEPT ![h] = "none", ![FreeHandle] = "Task"]
  /\ hcoro' = [hcoro EXCEPT ![h] = NullCoro, ![FreeHandle] = hcoro[h]]
  /\ UNCHANGED <<frame, operand, awaiter, awaitMode, detachedAwaiter, tvars, cancelled, ovars>>

\* co_withCancellation(CancellationToken, Task&&) and
\* co_withCancellation(CancellationToken, TaskWithExecutor&&)
co_withCancellation(h, cancelToken) ==
  /\ NothingLaunched
  /\ Holds(h) /\ HasFree
  /\ promise' = [promise EXCEPT ![hcoro[h]] = setCancelToken(@, cancelToken)]
  /\ TakeFrom(h, hkind[h])
  /\ UNCHANGED <<frame, operand, awaiter, awaitMode, detachedAwaiter, tvars, cancelled, ovars>>

(* ---------------- the promise's result-writing members ---------------- *)
\* mutant: result_.emplace() without the value
return_value_Default(p, value) == [p EXCEPT !.result = ValueTry("default")]

\* TaskPromise<T>::return_value, U convertible to T: result_.emplace(value)
return_value(p, value) == [p EXCEPT !.result = ValueTry(value)]

\* TaskPromise<T>::return_value, U = Try<T>: result_ = value
return_value_try(p, value) == [p EXCEPT !.result = value]

\* TaskPromiseCrtpBase::unhandled_exception
unhandled_exception(p, ex) == [p EXCEPT !.result = ErrorTry(ex)]

\* mutant: the exception is moved away before it is stored
yield_value_error_Lost(p, ex) == [p EXCEPT !.result = ErrorTry(NoException)]

\* TaskPromiseCrtpBase::yield_value(co_error): the result; the FinalAwaiter it
\* returns is awaited by FinalSuspend
yield_value_error(p, ex) == [p EXCEPT !.result = ErrorTry(ex)]

\* mutant: the result is not stored
yield_value_result_NotWritten(p, r) == p

\* TaskPromiseCrtpBase::yield_value(co_result)
yield_value_result(p, r) == [p EXCEPT !.result = r]

\* mutant: the token is not looked at
do_safe_point_Never(p) == [promise |-> p, final |-> FALSE]

\* TaskPromiseBase::do_safe_point: the promise afterwards and whether the
\* FinalAwaiter (TRUE) or ready_awaitable<> (FALSE) is returned
do_safe_point(p) ==
  IF isCancellationRequested(p.cancelToken)
    THEN [promise |-> yield_value_error(p, OperationCancelled), final |-> TRUE]
    ELSE [promise |-> p, final |-> FALSE]

\* TaskPromiseBase::await_transform, the bypassExceptionThrowing_ update;
\* nothrow: the NothrowAwaitable overload ran first and set REQUESTED
await_transform_bypass(p, nothrow) ==
  LET requested == IF nothrow THEN "REQUESTED" ELSE p.bypassExceptionThrowing
  IN [p EXCEPT !.bypassExceptionThrowing =
        IF requested = "REQUESTED" THEN "ACTIVE" ELSE "INACTIVE"]

(* ---------------- terminal-point dispatch ---------------- *)
RECURSIVE FinalAwaiter_await_suspend(_, _)
RECURSIVE getErrorHandle(_, _, _)

\* mutant: the error is not routed, the coroutine is resumed at its await
getErrorHandle_Resume(P, me, ex) ==
  [P |-> P, resume |-> CoroRef(me), done |-> {}, moved |-> FALSE]

\* TaskPromiseCrtpBase::getErrorHandle on the promise of coroutine me, in the
\* promises P: the promises afterwards, the handle to resume, the coroutines
\* that reached their final suspend point on the way, and whether ex was
\* moved from
getErrorHandle(P, me, ex) ==
  IF P[me].bypassExceptionThrowing = "ACTIVE"
    THEN LET P1 == [P EXCEPT ![me] = yield_value_error(@, ex)]
             R == FinalAwaiter_await_suspend(P1, me)
         IN [P |-> R.P, resume |-> R.resume, done |-> R.done \cup {me},
             moved |-> TRUE]
    ELSE [P |-> P, resume |-> CoroRef(me), done |-> {}, moved |-> FALSE]

\* ExtendedCoroutineHandle::getErrorHandle on continuation cont: a Task
\* promise routes the error itself, any other coroutine is resumed as it is
ContinuationErrorHandle(P, cont, ex) ==
  IF cont[1] = "coro"
    THEN getErrorHandle(P, cont[2], ex)
    ELSE [P |-> P, resume |-> cont, done |-> {}, moved |-> FALSE]

\* mutant: the frame is popped before the ScopeExitTask is given its context
ScopeExitHandOff_Pops(P, c) ==
  [P |-> [P EXCEPT ![c].frameLinked = FALSE,
                   ![c].scopeExitContext =
            [continuation |-> P[c].continuation,
             asyncFrame |-> c,
             executor |-> P[c].executor,
             ew |-> IF hasException(P[c].result) THEN P[c].result.val
                    ELSE NoException,
             set |-> TRUE, ran |-> 0]],
   resume |-> ScopeExitRef(c), done |-> {}]

\* FinalAwaiter::await_suspend, an attached ScopeExitTask: setContext gives
\* it the continuation, the async stack frame of c, the executor and the
\* error, and it is resumed next
ScopeExitHandOff(P, c) ==
  [P |-> [P EXCEPT ![c].scopeExitContext =
            [continuation |-> P[c].continuation,
             asyncFrame |-> c,
             executor |-> P[c].executor,
             ew |-> IF hasException(P[c].result) THEN P[c].result.val
                    ELSE NoException,
             set |-> TRUE, ran |-> 0]],
   resume |-> ScopeExitRef(c), done |-> {}]

\* the number of linked async stack frames from the frame of c up its chain
\* of parent frames
RECURSIVE LinkedDepth(_, _)
LinkedDepth(P, c) ==
  IF ~P[c].frameLinked THEN 0
  ELSE IF P[c].parentFrame[1] = "coro"
    THEN 1 + LinkedDepth(P, P[c].parentFrame[2])
    ELSE 1

\* folly::popAsyncStackFrameCallee(promise.getAsyncFrame()): the frame of c
\* is unlinked; unlinkDepth keeps the depth of the chain it was popped from
popAsyncStackFrameCallee(P, c) ==
  [P EXCEPT ![c].frameLinked = FALSE, ![c].unlinkDepth = LinkedDepth(P, c)]

\* mutant: the frame is popped after the error was routed to the continuation
PopAndResume_PopLast(P, c) ==
  IF hasException(P[c].result)
    THEN LET R == ContinuationErrorHandle(P, P[c].continuation, P[c].result.val)
             P2 == popAsyncStackFrameCallee(R.P, c)
         IN [P |-> IF R.moved THEN [P2 EXCEPT ![c].result.val = NoException]
                   ELSE P2,
             resume |-> R.resume, done |-> R.done]
    ELSE [P |-> popAsyncStackFrameCallee(P, c), resume |-> P[c].continuation,
          done |-> {}]

\* mutant: the continuation is resumed as it is, also when the result is an
\* error
PopAndResume_NoErrorHandle(P, c) ==
  [P |-> popAsyncStackFrameCallee(P, c), resume |-> P[c].continuation,
   done |-> {}]

\* FinalAwaiter::await_suspend, no ScopeExitTask: the frame is popped and the
\* continuation resumed, through getErrorHandle if the result is an error
PopAndResume(P, c) ==
  LET P1 == popAsyncStackFrameCallee(P, c)
  IN IF hasException(P[c].result)
       THEN LET R == ContinuationErrorHandle(P1, P[c].continuation, P[c].result.val)
            IN [P |-> IF R.moved THEN [R.P EXCEPT ![c].result.val = NoException]
                      ELSE R.P,
                resume |-> R.resume, done |-> R.done]
       ELSE [P |-> P1, resume |-> P[c].continuation, done |-> {}]

\* mutant: the attached ScopeExitTask is ignored
FinalAwaiter_await_suspend_NoScopeExit(P, c) == PopAndResume(P, c)

\* mutant: cancellation is looked for at the final suspend point
FinalAwaiter_await_suspend_CancelCheck(P, c) ==
  LET P0 == IF isCancellationRequested(P[c].cancelToken)
              THEN [P EXCEPT ![c].result = ErrorTry(OperationCancelled)]
              ELSE P
  IN IF P0[c].scopeExit # 0 THEN ScopeExitHandOff(P0, c) ELSE PopAndResume(P0, c)

\* mutant: no handle is returned, nothing is resumed
FinalAwaiter_await_suspend_Stuck(P, c) ==
  [P |-> popAsyncStackFrameCallee(P, c), resume |-> NoHandle, done |-> {}]

\* TaskPromiseBase::FinalAwaiter::await_suspend for coroutine c
FinalAwaiter_await_suspend(P, c) ==
  IF P[c].scopeExit # 0 THEN ScopeExitHandOff(P, c) ELSE PopAndResume(P, c)

(* ---------------- executors and request contexts ---------------- *)
\* the lambda that TaskWithExecutor::Awaiter::await_suspend submits: the
\* coroutine to resume and the RequestContext saved at the submission;
\* kind "resume" is the unit of work a ViaCoroutine submits
Work(c, kind, ctx) == [coro |-> c, kind |-> kind, ctx |-> ctx]

\* mutant: the first resumption is not submitted
executor_add_Lost(q, x, item) == q

\* mutant: the first resumption is submitted to another executor
executor_add_Elsewhere(q, x, item) ==
  [q EXCEPT ![CHOOSE y \in Execs : y # x] = Append(@, item)]

\* promise.executor_->add(...) in TaskWithExecutor::Awaiter::await_suspend:
\* the queues afterwards
executor_add(q, x, item) == [q EXCEPT ![x] = Append(@, item)]

\* control returns from the coroutines to the frame below them on the stack
\* of thread x, whose RequestContextScopeGuard goes out of scope
Leave(x) ==
  /\ ambient' = [ambient EXCEPT ![x] = IF guard[x].armed THEN guard[x].ctx ELSE @]
  /\ guard' = [guard EXCEPT ![x] = NoGuard]

\* mutant: startInlineImpl has no RequestContextScopeGuard
contextScope_Missing(amb) == [kind |-> "inline", armed |-> FALSE, ctx |-> amb]

\* RequestContextScopeGuard contextScope{RequestContext::saveContext()} in
\* startInlineImpl, entered with amb ambient
contextScope(amb) == [kind |-> "inline", armed |-> TRUE, ctx |-> amb]

(* ---------------- launching ---------------- *)
\* mutant: the TaskWithExecutor keeps its coro_ when it is launched
exchange_coro_Kept(hc, h) == hc

\* std::exchange(coro_, {}) on handle object h when the launch wrapper's
\* awaiter takes the coroutine (operator co_await, InlineTryAwaitable)
exchange_coro(hc, h) == [hc EXCEPT ![h] = NullCoro]

\* TaskWithExecutor::start(F&&, CancellationToken) -> startImpl: the token is
\* set, the InlineTaskDetached coroutine takes the task, co_awaits it
\* (operator co_await makes the Awaiter from the task's coro_) and
\* Awaiter::await_suspend stores the continuation and submits the first
\* resumption to the bound executor; the caller gets control back
start(h, cancelToken) ==
  /\ Holds(h) /\ hkind[h] = "TaskWithExecutor"
  /\ NothingLaunched
  /\ \A g \in Handles : g # h => ~Holds(g)
  /\ LET c == hcoro[h]
         p1 == setCancelToken(promise[c], cancelToken)
     IN /\ promise' = [promise EXCEPT ![c] =
                         [p1 EXCEPT !.continuation = DetachedRef(c),
                                    !.parentFrame = DetachedRef(c)]]
        /\ queue' = executor_add(queue, p1.executor, Work(c, "start", CallerCtx))
        /\ frame' = [frame EXCEPT ![c] = "scheduled"]
        /\ detachedAwaiter' = [detachedAwaiter EXCEPT ![c] = c]
        /\ uses' = Used({c}, "launched")
  /\ hcoro' = exchange_coro(hcoro, h)
  /\ hkind' = [hkind EXCEPT ![h] = "none"]
  /\ hexec' = NoReturnedExecutor
  /\ UNCHANGED <<operand, awaiter, awaitMode, cur, ambient, guard, cancelled,
                 safePointPassed, endedBy, cbLog, escaped, log>>

\* TaskWithExecutor::startInlineUnsafe(F&&, CancellationToken) ->
\* startInlineImpl, called on the thread of the bound executor: the token is
\* set, the context scope is entered, the InlineTaskDetached coroutine awaits
\* InlineTryAwaitable, whose await_suspend stores the continuation, pushes the
\* async stack frame and transfers control to the task on this thread
startInlineUnsafe(h, cancelToken) ==
  /\ Holds(h) /\ hkind[h] = "TaskWithExecutor"
  /\ NothingLaunched
  /\ \A g \in Handles : g # h => ~Holds(g)
  /\ LET c == hcoro[h]
         p1 == setCancelToken(promise[c], cancelToken)
         x == p1.executor
     IN /\ cur[x] = NoHandle
        /\ promise' = [promise EXCEPT ![c] =
                         [p1 EXCEPT !.continuation = DetachedRef(c),
                                    !.parentFrame = DetachedRef(c),
                                    !.frameLinked = TRUE]]
        /\ frame' = [frame EXCEPT ![c] = "running"]
        /\ cur' = [cur EXCEPT ![x] = CoroRef(c)]
        /\ guard' = [guard EXCEPT ![x] = contextScope(ambient[x])]
        /\ detachedAwaiter' = [detachedAwaiter EXCEPT ![c] = c]
        /\ uses' = Used({c}, "launchedInline")
  /\ hcoro' = exchange_coro(hcoro, h)
  /\ hkind' = [hkind EXCEPT ![h] = "none"]
  /\ hexec' = NoReturnedExecutor
  /\ UNCHANGED <<operand, awaiter, awaitMode, queue, ambient, cancelled,
                 safePointPassed, endedBy, cbLog, escaped, log>>

\* the executor runs a unit of work: the saved RequestContext is made ambient
\* for the duration (RequestContextScopeGuard) and the coroutine is resumed
\* (resumeCoroutineWithNewAsyncStackRoot)
RunWork(x, i) ==
  /\ cur[x] = NoHandle
  /\ i \in 1..Len(queue[x])
  /\ LET c == queue[x][i].coro
     IN /\ frame' = [frame EXCEPT ![c] =
                       IF queue[x][i].kind = "start" THEN "running" ELSE "resumed"]
        /\ promise' = [promise EXCEPT ![c].frameLinked = TRUE]
        /\ cur' = [cur EXCEPT ![x] = CoroRef(c)]
  /\ guard' = [guard EXCEPT ![x] = WorkGuard(ambient[x])]
  /\ ambient' = [ambient EXCEPT ![x] = queue[x][i].ctx]
  /\ queue' = [queue EXCEPT ![x] =
                 [j \in 1..(Len(@) - 1) |-> IF j < i THEN @[j] ELSE @[j + 1]]]
  /\ UNCHANGED <<hvars, operand, awaiter, awaitMode, detachedAwaiter, cancelled, ovars>>

\* CancellationSource::requestCancellation, from any thread
RequestCancellation(tok) ==
  /\ tok \notin cancelled
  /\ cancelled' = cancelled \cup {tok}
  /\ UNCHANGED <<hvars, cvars, tvars, ovars>>

(* ---------------- the body of a Task coroutine ---------------- *)
Running(c, t) == cur[t] = CoroRef(c) /\ frame[c] = "running"
\* a body written by the user is running (the coroutine that co_viaIfAsync
\* makes around a bound task is the one that holds a Task to await)
IsRunning(c) == operand[c] = NullCoro /\ \E t \in Threads : Running(c, t)

\* the body reaches its end: result written, final_suspend() is next
Finish(c, p, how) ==
  /\ promise' = [promise EXCEPT ![c] = p]
  /\ frame' = [frame EXCEPT ![c] = "finishing"]
  /\ endedBy' = [endedBy EXCEPT ![c] = how]
  /\ UNCHANGED <<hvars, operand, awaiter, awaitMode, detachedAwaiter, tvars, cancelled,
                 safePointPassed, uses, cbLog, escaped, log>>

\* co_return value;
Return(c, v) ==
  /\ IsRunning(c)
  /\ Finish(c, return_value(promise[c], v), Ended("co_return", "value", v))

\* co_return Try<T>{...};
ReturnTry(c, r) ==
  /\ IsRunning(c)
  /\ Finish(c, return_value_try(promise[c], r), Ended("co_return_try", r.tag, r.val))

\* an exception leaves the body
Throw(c, e) ==
  /\ IsRunning(c)
  /\ Finish(c, unhandled_exception(promise[c], e), Ended("throw", "error", e))

\* co_yield co_error(e);
YieldError(c, e) ==
  /\ IsRunning(c)
  /\ Finish(c, yield_value_error(promise[c], e), Ended("co_error", "error", e))

\* co_yield co_result(Try<T>{...});
YieldResult(c, r) ==
  /\ IsRunning(c)
  /\ Finish(c, yield_value_result(promise[c], r), Ended("co_result", r.tag, r.val))

\* co_await co_safe_point;
SafePoint(c) ==
  /\ IsRunning(c)
  /\ LET r == do_safe_point(promise[c])
     IN IF r.final
          THEN Finish(c, r.promise, Ended("cancelled", "error", OperationCancelled))
          ELSE /\ ~safePointPassed[c]
               /\ safePointPassed' = [safePointPassed EXCEPT ![c] = TRUE]
               /\ promise' = [promise EXCEPT ![c] = r.promise]
               /\ UNCHANGED <<hvars, frame, operand, awaiter, awaitMode, detachedAwaiter,
                              tvars, cancelled, endedBy, uses, cbLog, escaped, log>>

\* mutant: the ScopeExitTask stored before is dropped, none is returned
co_attachScopeExit_DropsPrevious(p, scopeExit) ==
  [promise |-> [p EXCEPT !.scopeExit = scopeExit], previous |-> 0]

\* tag_invoke(cpo_t<co_attachScopeExit>, TaskPromiseBase& p, scopeExit):
\* std::exchange(p.scopeExit_, scopeExit); the promise afterwards and the
\* handle returned
co_attachScopeExit(p, scopeExit) ==
  [promise |-> [p EXCEPT !.scopeExit = scopeExit], previous |-> p.scopeExit]

\* co_attachScopeExit called on the promise of c with a new ScopeExitTask
\* (they are numbered in the order they are made): it is stored in
\* scopeExit_; the one stored before is returned (scopeExitPrevious) to
\* become its predecessor
AttachedTo(c) ==
  /\ LET r == co_attachScopeExit(promise[c], promise[c].scopeExit + 1)
     IN promise' = [promise EXCEPT ![c] =
                      [r.promise EXCEPT !.scopeExitPrevious = r.previous]]
  /\ UNCHANGED <<hvars, frame, operand, awaiter, awaitMode, detachedAwaiter, tvars,
                 cancelled, ovars>>

\* co_await co_scope_exit(...) in the body of c
AttachScopeExit(c) ==
  /\ IsRunning(c)
  /\ promise[c].scopeExit < MaxScopeExits
  /\ Cardinality({d \in Coros \ {c} : promise[d].scopeExit > 0}) < MaxFinalized
  /\ AttachedTo(c)

\* co_await co_scope_exit(...) in a body that has attached one already
AttachScopeExitAgain(c) ==
  /\ IsRunning(c)
  /\ promise[c].scopeExit \in 1..(MaxChain - 1)
  /\ AttachedTo(c)

\* the body installs a RequestContext of its own on the thread it runs on
InstallContext(c) ==
  /\ IsRunning(c)
  /\ \E x \in Execs :
       /\ cur[x] = CoroRef(c)
       /\ ambient[x] # BodyCtx
       /\ ambient' = [ambient EXCEPT ![x] = BodyCtx]
  /\ UNCHANGED <<hvars, cvars, queue, cur, guard, cancelled, ovars>>

AwaitModes == {"throw", "try", "nothrow"}
\* what the awaited expression does to the child's token before the await:
\* nothing, or co_withCancellation(tok, ...)
Overrides == {<<>>} \cup {<<tok>> : tok \in Tokens \cup {NoToken}}

\* the coroutine frame the next call of a coroutine function allocates, and
\* the one the call after it allocates
FreeCoros == {c \in Coros : frame[c] = "none"}
NextCoro == CHOOSE c \in FreeCoros : \A d \in FreeCoros : c <= d
SecondCoro == CHOOSE c \in FreeCoros \ {NextCoro} :
                \A d \in FreeCoros \ {NextCoro} : c <= d
CanCreate == FreeCoros # {}

\* mutant: the child does not get the awaiting coroutine's executor
co_viaIfAsync_NoExecutor(pk, executor, k) ==
  [promise |-> pk, operand |-> NullCoro, awaiter |-> k]

\* co_viaIfAsync(Executor::KeepAlive<>, Task<T>&& t): the executor is set
\* and the Awaiter takes t.coro_; what t.coro_ and the Awaiter's coro_ are
\* afterwards
co_viaIfAsync(pk, executor, k) ==
  [promise |-> setExecutor(pk, executor), operand |-> NullCoro, awaiter |-> k]

\* c awaits the Task holding coroutine k, whose promise is pk0:
\* await_transform applies co_withCancellation(cancelToken_, ...) and
\* co_viaIfAsync(executor_, ...), and Task::Awaiter::await_suspend stores the
\* continuation, pushes the child's async stack frame and transfers control
AwaitChild(c, k, pk0, mode) ==
  LET pc == await_transform_bypass(promise[c], mode = "nothrow")
      pk1 == setCancelToken(pk0, pc.cancelToken)
      via == co_viaIfAsync(pk1, pc.executor, k)
      pk3 == [via.promise EXCEPT !.continuation = CoroRef(c),
                                 !.parentFrame = CoroRef(c),
                                 !.frameLinked = TRUE]
  IN /\ promise' = [promise EXCEPT ![c] = pc, ![k] = pk3]
     /\ frame' = [frame EXCEPT ![c] = "awaiting", ![k] = "running"]
     /\ cur' = [t \in Threads |-> IF cur[t] = CoroRef(c) THEN CoroRef(k) ELSE cur[t]]
     /\ operand' = [operand EXCEPT ![c] = via.operand]
     /\ awaiter' = [awaiter EXCEPT ![c] = via.awaiter]
     /\ awaitMode' = [awaitMode EXCEPT ![c] = mode]
     /\ safePointPassed' = [safePointPassed EXCEPT ![c] = FALSE]
     /\ uses' = Used({k}, "awaited")

\* co_await child(...), co_await co_awaitTry(child(...)) or
\* co_await co_nothrow(child(...)) in the body of c, the child's Task
\* possibly passed through co_withCancellation(tok, ...) first: the child's
\* frame is allocated and the Task awaited
CoAwaitTask(c, override, mode) ==
  /\ IsRunning(c)
  /\ CanCreate
  /\ AwaitChild(c, NextCoro,
                IF override = <<>> THEN NewPromise
                ELSE setCancelToken(NewPromise, override[1]),
                mode)
  /\ UNCHANGED <<hvars, detachedAwaiter, queue, ambient, guard, cancelled, endedBy,
                 cbLog, escaped, log>>

\* mutant: the wrapper coroutine is scheduled on the awaiting coroutine's
\* executor
co_viaIfAsync_bound_Inherit(executor, taskExecutor) == executor

\* co_viaIfAsync(Executor::KeepAlive<> executor, TaskWithExecutor&&): the
\* executor the coroutine made around the unwrapped task is scheduled on
co_viaIfAsync_bound(executor, taskExecutor) == taskExecutor

\* co_await co_withExecutor(y, child(...)) or co_awaitTry of it in the body
\* of c: the child's frame is allocated and bound to y; await_transform
\* applies co_withCancellation(cancelToken_, ...) and co_viaIfAsync, which
\* unwraps the task, makes a coroutine around it and schedules that on the
\* executor unwrap() returned; the ViaIfAsyncAwaitable awaits it through
\* TaskWithExecutor::Awaiter, whose await_suspend stores the continuation
\* and submits the first resumption; the thread of c is released
CoAwaitBound(c, y, mode) ==
  /\ IsRunning(c)
  /\ mode \in {"throw", "try"}
  /\ Cardinality(FreeCoros) >= 2
  /\ \E x \in Execs :
       /\ cur[x] = CoroRef(c)
       /\ LET t == NextCoro
              w == SecondCoro
              pc == await_transform_bypass(promise[c], FALSE)
              pt == setCancelToken(setExecutor(NewPromise, y), pc.cancelToken)
              u == unwrap_pair(pt)
              pw == [setExecutor(NewPromise,
                                 co_viaIfAsync_bound(pc.executor, u.executor))
                       EXCEPT !.continuation = ViaRef(c, ambient[x]),
                              !.parentFrame = ViaRef(c, ambient[x])]
          IN /\ promise' = [promise EXCEPT ![c] = pc, ![t] = u.promise, ![w] = pw]
             /\ frame' = [frame EXCEPT ![c] = "awaiting", ![t] = "initial",
                                       ![w] = "scheduled"]
             /\ operand' = [operand EXCEPT ![w] = t]
             /\ awaiter' = [awaiter EXCEPT ![c] = w]
             /\ queue' = executor_add(queue, pw.executor, Work(w, "start", ambient[x]))
             /\ uses' = Used({w}, "awaited")
       /\ cur' = [cur EXCEPT ![x] = NoHandle]
       /\ Leave(x)
  /\ awaitMode' = [awaitMode EXCEPT ![c] = mode]
  /\ safePointPassed' = [safePointPassed EXCEPT ![c] = FALSE]
  /\ UNCHANGED <<hvars, detachedAwaiter, cancelled, endedBy, cbLog, escaped, log>>

\* the body of the coroutine that co_viaIfAsync made around a bound task:
\* co_await co_awaitTry(std::move(t))
WrapperAwait(w) ==
  /\ operand[w] # NullCoro
  /\ \E t \in Threads : Running(w, t)
  /\ AwaitChild(w, operand[w], promise[operand[w]], "wrapper")
  /\ UNCHANGED <<hvars, detachedAwaiter, queue, ambient, guard, cancelled, endedBy,
                 cbLog, escaped, log>>

(* ---------------- the terminal point ---------------- *)
\* control goes where the dispatch R says, on the thread that ran `from`;
\* the coroutines of `fin` are now suspended at their final suspend point,
\* and so are those that R.done says were ended by the forwarded error ex
Transfer(from, fin, R, ex) ==
  /\ promise' = R.P
  /\ frame' = [d \in Coros |->
                 IF d \in fin \cup R.done THEN "done"
                 ELSE IF R.resume = CoroRef(d) THEN "resumed"
                 ELSE frame[d]]
  /\ cur' = [t \in Threads |-> IF cur[t] = from THEN R.resume ELSE cur[t]]
  /\ endedBy' = [d \in Coros |->
                   IF d \in R.done
                     THEN Ended("nothrow", "error", ex)
                     ELSE endedBy[d]]

\* co_await final_suspend(): FinalAwaiter::await_suspend
FinalSuspend(c) ==
  /\ frame[c] = "finishing"
  /\ \E t \in Threads : cur[t] = CoroRef(c)
  /\ Transfer(CoroRef(c), {c}, FinalAwaiter_await_suspend(promise, c),
              promise[c].result.val)
  /\ UNCHANGED <<hvars, operand, awaiter, awaitMode, detachedAwaiter, queue, ambient,
                 guard, cancelled, safePointPassed, uses, cbLog, escaped, log>>

\* the ScopeExitTask attached to c runs and completes: the next one of the
\* chain if there is one, else the frame of c is popped and the saved
\* continuation resumed, through its error entry if an error was handed over;
\* the finalizer of the launched task writes to the log
ScopeExitRun(c) ==
  /\ \E t \in Threads : cur[t] = ScopeExitRef(c)
  /\ log' = IF detachedAwaiter[c] = c THEN Append(log, <<"scopeExit", c>>) ELSE log
  /\ LET ctx == promise[c].scopeExitContext
         P0 == [promise EXCEPT ![c].scopeExitContext.ran = @ + 1]
         P1 == popAsyncStackFrameCallee(P0, c)
     IN IF ctx.ran + 1 < promise[c].scopeExit
          THEN /\ promise' = P0
               /\ UNCHANGED <<frame, cur, endedBy>>
          ELSE IF ctx.ew # NoException
            THEN Transfer(ScopeExitRef(c), {},
                          ContinuationErrorHandle(P1, ctx.continuation, ctx.ew), ctx.ew)
            ELSE Transfer(ScopeExitRef(c), {},
                          [P |-> P1, resume |-> ctx.continuation, done |-> {}], ctx.ew)
  /\ UNCHANGED <<hvars, operand, awaiter, awaitMode, detachedAwaiter, queue, ambient,
                 guard, cancelled, safePointPassed, uses, cbLog, escaped>>

(* ---------------- resumption of the awaiting coroutine ---------------- *)
\* Task::Awaiter / TaskWithExecutor::Awaiter await_resume / await_resume_try
\* in the resumed coroutine c: the child's result is moved out, the child's
\* frame is destroyed and the awaiter's coro_ emptied; await_resume() throws
\* the child's error into the body, where it is caught (handled) or leaves
\* the body
AwaitResume(c, handled) ==
  /\ frame[c] = "resumed"
  /\ \E t \in Threads : cur[t] = CoroRef(c)
  /\ awaiter[c] # NullCoro
  /\ awaitMode[c] \in AwaitModes
  /\ LET k == awaiter[c]
         r == promise[k].result
         thrown == awaitMode[c] # "try" /\ hasException(r)
         D == DestroySet(k)
     IN /\ (handled => thrown)
        /\ IF thrown /\ ~handled
             THEN /\ Destroy(D, [frame EXCEPT ![c] = "finishing"],
                             [awaiter EXCEPT ![c] = NullCoro],
                             [promise EXCEPT ![c] = unhandled_exception(@, r.val)])
                  /\ endedBy' = [d \in Coros |->
                                   IF d \in D THEN NotEnded
                                   ELSE IF d = c THEN Ended("throw", "error", r.val)
                                   ELSE endedBy[d]]
             ELSE /\ Destroy(D, [frame EXCEPT ![c] = "running"],
                             [awaiter EXCEPT ![c] = NullCoro], promise)
                  /\ endedBy' = [d \in Coros |->
                                   IF d \in D THEN NotEnded ELSE endedBy[d]]
        /\ safePointPassed' = [d \in Coros |-> d \notin D /\ safePointPassed[d]]
  /\ awaitMode' = [awaitMode EXCEPT ![c] = "none"]
  /\ UNCHANGED <<hvars, operand, detachedAwaiter, tvars, cancelled, uses, cbLog,
                 escaped, log>>

\* the coroutine that co_viaIfAsync made around a bound task is resumed:
\* await_resume_try moves the task's result out and destroys its frame, and
\* co_yield co_result(...) makes it the coroutine's own result
WrapperResume(w) ==
  /\ frame[w] = "resumed"
  /\ \E t \in Threads : cur[t] = CoroRef(w)
  /\ awaiter[w] # NullCoro
  /\ awaitMode[w] = "wrapper"
  /\ LET k == awaiter[w]
         r == promise[k].result
         D == DestroySet(k)
     IN /\ Destroy(D, [frame EXCEPT ![w] = "finishing"],
                   [awaiter EXCEPT ![w] = NullCoro],
                   [promise EXCEPT ![w] = yield_value_result(@, r)])
        /\ endedBy' = [d \in Coros |->
                         IF d \in D THEN NotEnded
                         ELSE IF d = w THEN Ended("forwarded", r.tag, r.val)
                         ELSE endedBy[d]]
        /\ safePointPassed' = [d \in Coros |-> d \notin D /\ safePointPassed[d]]
  /\ awaitMode' = [awaitMode EXCEPT ![w] = "none"]
  /\ UNCHANGED <<hvars, operand, detachedAwaiter, tvars, cancelled, uses, cbLog,
                 escaped, log>>

\* the ViaCoroutine of the await of c is resumed by the bound child's
\* FinalAwaiter: it submits the resumption of c to the executor of c, with
\* the RequestContext saved at the await, and the unit of work that ran the
\* child returns
ViaResume(c) ==
  /\ \E y \in Execs :
       /\ cur[y][1] = "via" /\ cur[y][2] = c
       /\ queue' = [queue EXCEPT ![promise[c].executor] =
                      Append(@, Work(c, "resume", cur[y][3]))]
       /\ cur' = [cur EXCEPT ![y] = NoHandle]
       /\ Leave(y)
  /\ UNCHANGED <<hvars, cvars, cancelled, ovars>>

\* mutant: the body has no try / catch around the call of cb
startImpl_callbacks_NoCatch(r, cbThrows) == <<r>>

\* the body of the InlineTaskDetached coroutine of startImpl and
\* startInlineImpl, resumed with the task's result r: the results cb is
\* called with, in order; the catch block calls it with the exception that
\* its first call threw
startImpl_callbacks(r, cbThrows) ==
  IF cbThrows THEN <<r, ErrorTry(CallbackError)>> ELSE <<r>>

\* the InlineTaskDetached coroutine of startImpl / startInlineImpl is
\* resumed: await_resume_try (InlineTryAwaitable::await_resume) moves the
\* result out and destroys the task's frame, cb(result) is called; if that
\* throws, the catch block calls cb with the exception; the coroutine then
\* ends and control returns to the executor's unit of work or to the caller
\* of startInlineUnsafe
DetachedResume(c, cbThrows, cbThrowsAgain) ==
  /\ detachedAwaiter[c] # NullCoro
  /\ (cbThrowsAgain => cbThrows)
  /\ LET k == detachedAwaiter[c]
         r == promise[k].result
     IN /\ Destroy(DestroySet(k), frame, awaiter, promise)
        /\ detachedAwaiter' = [detachedAwaiter EXCEPT ![c] = NullCoro]
        /\ cbLog' = [cbLog EXCEPT ![c] = startImpl_callbacks(r, cbThrows)]
        /\ log' = log \o (IF cbThrows THEN <<<<"callback", c>>, <<"callback", c>>>>
                          ELSE <<<<"callback", c>>>>)
        /\ escaped' = [escaped EXCEPT ![c] = cbThrowsAgain]
        /\ endedBy' = [d \in Coros |->
                         IF d \in DestroySet(k) \ {k} THEN NotEnded ELSE endedBy[d]]
  /\ \E x \in Execs :
       /\ cur[x] = DetachedRef(c)
       /\ cur' = [cur EXCEPT ![x] = NoHandle]
       /\ Leave(x)
  /\ UNCHANGED <<hvars, operand, awaitMode, queue, cancelled, safePointPassed, uses>>

(* ---------------- the specification ---------------- *)
Next ==
  \/ \E c \in Coros : CreateTask(c)
  \/ \E h \in Handles : MoveConstruct(h)
  \/ \E a, b \in Handles : MoveAssign(a, b)
  \/ \E a, b \in Handles : Swap(a, b)
  \/ \E h \in Handles : Drop(h)
  \/ \E h \in Handles, x \in CallerExecs : scheduleOn(h, x)
  \/ \E h \in Handles : unwrap(h)
  \/ \E h \in Handles, tok \in Tokens \cup {NoToken} : co_withCancellation(h, tok)
  \/ \E h \in Handles, tok \in Tokens \cup {NoToken} : start(h, tok)
  \/ \E h \in Handles, tok \in Tokens \cup {NoToken} : startInlineUnsafe(h, tok)
  \/ \E x \in Execs, i \in 1..NumCoros : RunWork(x, i)
  \/ \E tok \in Tokens : RequestCancellation(tok)
  \/ \E c \in Coros, v \in Values : Return(c, v)
  \/ \E c \in Coros, r \in Tries : ReturnTry(c, r)
  \/ \E c \in Coros, e \in Errors : Throw(c, e)
  \/ \E c \in Coros, e \in Errors : YieldError(c, e)
  \/ \E c \in Coros, r \in Tries : YieldResult(c, r)
  \/ \E c \in Coros : SafePoint(c)
  \/ \E c \in Coros : AttachScopeExit(c)
  \/ \E c \in Coros : InstallContext(c)
  \/ \E c \in Coros, ov \in Overrides, mode \in AwaitModes : CoAwaitTask(c, ov, mode)
  \/ \E c \in Coros, y \in Execs, mode \in AwaitModes : CoAwaitBound(c, y, mode)
  \/ \E c \in Coros : WrapperAwait(c)
  \/ \E c \in Coros : FinalSuspend(c)
  \/ \E c \in Coros : ScopeExitRun(c)
  \/ \E c \in Coros, handled \in BOOLEAN : AwaitResume(c, handled)
  \/ \E c \in Coros : WrapperResume(c)
  \/ \E c \in Coros : ViaResume(c)
  \/ \E c \in Coros, t1, t2 \in BOOLEAN : DetachedResume(c, t1, t2)

Spec == Init /\ [][Next]_vars

(* ---------------- properties ---------------- *)
Live(c) == frame[c] \notin {"none", "destroyed"}
AtTerminalPoint(c) == frame[c] \in {"finishing", "done"}
\* the launch callback of root c has been invoked
Delivered(c) == cbLog[c] # <<>>

\* C1: a launched task whose body ends with co_return v has its callback
\* invoked with exactly value(v): the result handed over is not an error and
\* not another value; the only further invocation there can be is the one
\* the wrapper's catch block makes with the callback's own exception.
C1_ValueDelivered ==
  \A c \in Coros :
    (Delivered(c) /\ endedBy[c].how = "co_return") =>
      /\ cbLog[c][1] = ValueTry(endedBy[c].val)
      /\ \A i \in 2..Len(cbLog[c]) : cbLog[c][i] = ErrorTry(CallbackError)

C1_Witness ==
  \E c \in Coros :
    /\ endedBy[c].how = "co_return"
    /\ endedBy[c].val = "v42"
    /\ cbLog[c] = <<ValueTry("v42")>>

\* C2: a task whose body lets exception e escape, or does co_yield
\* co_error(e), has terminal result exactly error(e) (until the error is
\* moved into a co_nothrow-awaiting parent, which then holds error(e)), and
\* once launched its callback is invoked with exactly error(e).
C2_ErrorDelivered ==
  \A c \in Coros :
    endedBy[c].how \in {"throw", "co_error"} =>
      /\ frame[c] = "finishing" => promise[c].result = ErrorTry(endedBy[c].val)
      /\ frame[c] = "done" =>
           \/ promise[c].result = ErrorTry(endedBy[c].val)
           \/ /\ promise[c].result = ErrorTry(NoException)
              /\ \E p \in Coros :
                   /\ promise[c].continuation = CoroRef(p)
                   /\ awaitMode[p] = "nothrow"
                   /\ frame[p] = "done"
                   /\ endedBy[p] = Ended("nothrow", "error", endedBy[c].val)
      /\ Delivered(c) =>
           /\ cbLog[c][1] = ErrorTry(endedBy[c].val)
           /\ \A i \in 2..Len(cbLog[c]) : cbLog[c][i] = ErrorTry(CallbackError)

C2_Witness ==
  \E c \in Coros :
    /\ endedBy[c] = Ended("co_error", "error", "boom")
    /\ cbLog[c] = <<ErrorTry("boom")>>

\* C3: the callback passed to start() is invoked exactly once over the run:
\* never twice, and once the launched task is finished and released, not
\* zero times.
C3_CallbackExactlyOnce ==
  \A c \in Coros :
    /\ Len(cbLog[c]) <= 1
    /\ (frame[c] = "destroyed" /\ endedBy[c] # NotEnded) => Len(cbLog[c]) = 1

\* C4: with a ScopeExitTask attached, whatever the outcome, the coroutine at
\* its final suspend point hands control to the ScopeExitTask, and its
\* continuation is resumed only after every attached ScopeExitTask has run:
\* when the launch wrapper is resumed the finalizer's log entry is there and
\* the callback's is not, and no finalizer entry follows the callback's.
C4_FinalizerFirst ==
  /\ \A c \in Coros :
       (frame[c] = "done" /\ promise[c].scopeExit > 0) =>
         \/ /\ \E t \in Threads : cur[t] = ScopeExitRef(c)
            /\ promise[c].scopeExitContext.ran < promise[c].scopeExit
         \/ /\ \A t \in Threads : cur[t] # ScopeExitRef(c)
            /\ promise[c].scopeExitContext.ran = promise[c].scopeExit
  /\ \A c \in Coros :
       ((\E t \in Threads : cur[t] = DetachedRef(c)) /\ promise[c].scopeExit > 0) =>
         /\ \E j \in 1..Len(log) : log[j] = <<"scopeExit", c>>
         /\ \A j \in 1..Len(log) : log[j] # <<"callback", c>>
  /\ \A i \in 1..Len(log) : \A j \in 1..Len(log) :
       (i < j /\ log[i][1] = "callback") => log[j] # <<"scopeExit", log[i][2]>>

C4_Witness ==
  \E c \in Coros : \E i \in 1..Len(log) : \E j \in 1..Len(log) :
    /\ i < j
    /\ log[i] = <<"scopeExit", c>>
    /\ log[j] = <<"callback", c>>
    /\ endedBy[c].how = "cancelled"

\* C5: at co_await co_safe_point, if cancellation has been requested on the
\* coroutine's token the body does not go on: the result becomes
\* error(OperationCancelled) and the final suspend point is next; if not,
\* nothing changes and the body goes on running on the same thread.
C5_SafePoint ==
  [][\A c \in Coros :
       SafePoint(c) =>
         IF isCancellationRequested(promise[c].cancelToken)
           THEN /\ frame'[c] = "finishing"
                /\ promise'[c].result = ErrorTry(OperationCancelled)
                /\ cur' = cur
           ELSE /\ frame' = frame
                /\ promise' = promise
                /\ cur' = cur]_vars

C5_Witness ==
  \E c \in Coros :
    /\ endedBy[c].how = "cancelled"
    /\ frame[c] = "finishing"
    /\ promise[c].result = ErrorTry(OperationCancelled)

\* C6: cancellation shows only at an explicit check: a body that ends with
\* co_return v has result value(v) whether or not cancellation has been
\* requested on its token, before or after its last safe point, and a result
\* of error(OperationCancelled) comes only from a safe point, from an awaited
\* child's error, or from a child awaited with co_nothrow.
C6_NoImplicitCancel ==
  \A c \in Coros :
    /\ (AtTerminalPoint(c) /\ endedBy[c].how = "co_return") =>
         promise[c].result = ValueTry(endedBy[c].val)
    /\ promise[c].result = ErrorTry(OperationCancelled) =>
         endedBy[c].how \in {"cancelled", "throw", "nothrow", "forwarded"}

C6_Witness ==
  \E c \in Coros :
    /\ isCancellationRequested(promise[c].cancelToken)
    /\ safePointPassed[c]
    /\ frame[c] = "done"
    /\ endedBy[c].how = "co_return"
    /\ promise[c].result.tag = "value"

\* C7: the cancellation token is first-write-wins: co_withCancellation and
\* start(cb, token) on a promise with no token set store theirs, and once a
\* token is set no step (co_withCancellation, start, inheritance at co_await)
\* changes it for as long as the frame lives.
C7_TokenFirstWriteWins ==
  [][/\ \A c \in Coros :
          (promise[c].hasCancelTokenOverride /\ frame'[c] # "destroyed") =>
            /\ promise'[c].hasCancelTokenOverride
            /\ promise'[c].cancelToken = promise[c].cancelToken
     /\ \A h \in Handles : \A tok \in Tokens \cup {NoToken} :
          ((co_withCancellation(h, tok) \/ start(h, tok))
             /\ ~promise[hcoro[h]].hasCancelTokenOverride) =>
            promise'[hcoro[h]].cancelToken = tok]_vars

C7_Witness ==
  \E k \in Coros : \E p \in Coros :
    /\ frame[k] = "running"
    /\ promise[k].continuation = CoroRef(p)
    /\ promise[k].cancelToken = NoToken
    /\ promise[p].cancelToken = "tok"

\* C8: a Task awaited from a coroutine that runs on executor X has its
\* executor set to X before its body runs, every coroutine body runs on the
\* thread of its own executor, and so the awaiting coroutine is resumed on X
\* after the child has completed.
C8_ExecutorInherited ==
  /\ \A k \in Coros : \A p \in Coros :
       (Live(k) /\ promise[k].continuation = CoroRef(p)) =>
         /\ promise[p].executor \in Execs
         /\ promise[k].executor = promise[p].executor
  /\ \A t \in Threads : \A c \in Coros :
       cur[t] = CoroRef(c) => promise[c].executor = t

C8_Witness ==
  \E p \in Coros :
    /\ frame[p] = "resumed"
    /\ cur["X"] = CoroRef(p)
    /\ awaiter[p] # NullCoro
    /\ frame[awaiter[p]] = "done"
    /\ promise[awaiter[p]].executor = "X"

\* C9: at co_await of a child Task, a child whose token was not set gets the
\* awaiting coroutine's token before its body starts; a child that went
\* through co_withCancellation(tok, ...) keeps tok.
C9_TokenInherited ==
  [][\A c \in Coros : \A ov \in Overrides : \A mode \in AwaitModes :
       CoAwaitTask(c, ov, mode) =>
         /\ frame'[NextCoro] = "running"
         /\ promise'[NextCoro].cancelToken =
              IF ov = <<>> THEN promise[c].cancelToken ELSE ov[1]]_vars

C9_Witness ==
  \E k \in Coros : \E p \in Coros :
    /\ frame[k] = "running"
    /\ promise[k].continuation = CoroRef(p)
    /\ promise[k].cancelToken = "tok"
    /\ promise[p].cancelToken = "tok"
    /\ "tok" \in cancelled

\* the handle and awaiter objects whose coro_ is coroutine c
Owners(c) ==
  {<<"handle", h>> : h \in {g \in Handles : hcoro[g] = c}}
    \cup {<<"operand", d>> : d \in {e \in Coros : operand[e] = c}}
    \cup {<<"awaiter", d>> : d \in {e \in Coros : awaiter[e] = c}}
    \cup {<<"detached", d>> : d \in {e \in Coros : detachedAwaiter[e] = c}}

\* C10: every coroutine is held by at most one Task, TaskWithExecutor or
\* awaiter object, a held coroutine's frame is allocated, and an empty handle
\* object has no kind left: moves, scheduleOn, unwrap and co_await empty
\* their source in the step that fills the destination.
C10_SingleOwner ==
  \A c \in Coros :
    /\ Cardinality(Owners(c)) <= 1
    /\ Owners(c) # {} => Live(c)

C10_Witness ==
  /\ hcoro[1] = NullCoro
  /\ hcoro[2] = 1
  /\ hkind[2] = "TaskWithExecutor"
  /\ frame[1] = "initial"



\* C11: each computation is awaited, launched or destroyed by the handle
\* object holding it at most once, and only one of the three: a handle object
\* holds only a computation nothing was done with yet, whose body has not
\* started, and a computation nothing was done with has not started
C11_UsedAtMostOnce ==
  \A c \in Coros :
    /\ Len(uses[c]) <= 1
    /\ (\E h \in Handles : hcoro[h] = c) => uses[c] = <<>> /\ frame[c] = "initial"
    /\ uses[c] = <<>> => frame[c] \in {"none", "initial"}

\* a launched computation has completed and its frame is released, after the
\* one launch and nothing else
C11_Witness ==
  \E c \in Coros :
    /\ uses[c] = <<"launched">>
    /\ frame[c] = "destroyed"
    /\ Delivered(c)

\* C12: when a Task that was never awaited or launched is destroyed, its
\* frame is released and nothing else happens: no other frame changes, no
\* body step ends a coroutine, nothing is resumed or submitted on any thread,
\* no finalizer and no callback runs
C12_DropUnstarted ==
  [][\A h \in Handles :
       (Drop(h) /\ hkind[h] = "Task") =>
         LET c == hcoro[h]
         IN /\ frame[c] = "initial"
            /\ promise[c].scopeExit = 0
            /\ frame'[c] = "destroyed"
            /\ \A d \in Coros \ {c} : frame'[d] = frame[d] /\ promise'[d] = promise[d]
            /\ UNCHANGED <<cur, queue, ambient, guard, endedBy, safePointPassed,
                           cbLog, log, escaped, detachedAwaiter, operand, awaiter>>
    ]_vars

\* an unstarted Task was destroyed by its handle object
C12_Witness ==
  \E c \in Coros :
    /\ uses[c] = <<"droppedTask">>
    /\ frame[c] = "destroyed"

\* C13: no step of a body runs before the computation is launched or
\* awaited: a computation held by a handle object, or one nothing was done
\* with, is suspended before its body, on no thread, with no result and no
\* finalizer; and whenever a coroutine is on a thread its executor is set
C13_Lazy ==
  \A c \in Coros :
    /\ ((\E h \in Handles : hcoro[h] = c) \/ uses[c] = <<>>) /\ frame[c] # "none"
         => /\ frame[c] = "initial"
            /\ promise[c].result = EmptyTry
            /\ promise[c].scopeExit = 0
            /\ endedBy[c] = NotEnded
            /\ ~safePointPassed[c]
            /\ \A t \in Threads : cur[t] # CoroRef(c)
            /\ \A x \in Execs : \A i \in 1..Len(queue[x]) : queue[x][i].coro # c
    /\ (\E t \in Threads : cur[t] = CoroRef(c)) => promise[c].executor \in Execs

\* a computation was created, bound, given a token and moved between handle
\* objects, and is still suspended before its body
C13_Witness ==
  \E h \in Handles :
    /\ hkind[h] = "TaskWithExecutor"
    /\ h = MaxHandles
    /\ promise[hcoro[h]].hasCancelTokenOverride
    /\ promise[hcoro[h]].executor \in Execs
    /\ frame[hcoro[h]] = "initial"

\* the number of frames from the frame of c up its chain of parent frames
RECURSIVE ChainLength(_)
ChainLength(c) ==
  IF promise[c].parentFrame[1] = "coro"
    THEN 1 + ChainLength(promise[c].parentFrame[2])
    ELSE 1

\* C14: in a chain of awaits the frames are unlinked innermost first: a frame
\* that is linked has all its ancestors linked, so the linked depth seen from
\* it is the length of its chain, and a frame was unlinked at exactly that
\* depth, one more than the depth its parent is unlinked at
C14_UnlinkOrder ==
  \A k \in Coros :
    Live(k) =>
      /\ promise[k].frameLinked =>
           /\ LinkedDepth(promise, k) = ChainLength(k)
           /\ promise[k].parentFrame[1] = "coro" =>
                promise[promise[k].parentFrame[2]].frameLinked
      /\ (~promise[k].frameLinked /\ promise[k].unlinkDepth # 0) =>
           promise[k].unlinkDepth = ChainLength(k)

\* A awaits B awaits C; C and B have completed and were unlinked at depths 3
\* and 2, A is still linked
C14_Witness ==
  \E a, b, c \in Coros :
    /\ promise[c].parentFrame = CoroRef(b)
    /\ promise[b].parentFrame = CoroRef(a)
    /\ promise[c].unlinkDepth = 3 /\ ~promise[c].frameLinked
    /\ promise[b].unlinkDepth = 2 /\ ~promise[b].frameLinked
    /\ promise[a].frameLinked

\* the coroutine made around a bound task awaited by c, if c awaits one
IsWrapperOf(w, c) == Live(w) /\ promise[w].continuation[1] = "via"
                       /\ promise[w].continuation[2] = c
\* the bound task that wrapper w holds or awaits
BoundTaskOf(t, w) == Live(t) /\ (operand[w] = t \/ awaiter[w] = t)

C16_BoundChildKeepsExecutor ==
  [][/\ \A c \in Coros, y \in Execs, mode \in AwaitModes :
          CoAwaitBound(c, y, mode) =>
            /\ promise'[SecondCoro].executor = y
            /\ promise'[c].executor = promise[c].executor
     /\ \A w \in Coros :
          (frame[w] \notin {"none", "initial", "destroyed"}
             /\ frame'[w] \notin {"none", "initial", "destroyed"}) =>
            promise'[w].executor = promise[w].executor
     /\ \A w, t \in Coros :
          (awaitMode'[w] = "wrapper" /\ awaiter'[w] = t) =>
            promise'[t].executor = promise'[w].executor
     /\ \A thr \in Threads, d \in Coros :
          cur'[thr] = CoroRef(d) => promise'[d].executor = thr
    ]_vars

\* C16 as stated: the awaited bound task takes the awaiting computation's
\* executor, and its body runs there
C16_InheritsAwaiterExecutor ==
  \A c, w, t \in Coros :
    (IsWrapperOf(w, c) /\ BoundTaskOf(t, w)) =>
      /\ frame[t] # "initial" => promise[t].executor = promise[c].executor
      /\ \A thr \in Threads : cur[thr] = CoroRef(t) => thr = promise[c].executor

\* the body of a task bound to Y runs on Y while the computation on X that
\* awaits it is suspended
C16_Witness ==
  \E c, w, t \in Coros :
    /\ IsWrapperOf(w, c) /\ awaiter[w] = t
    /\ promise[c].executor = "X" /\ frame[c] = "awaiting"
    /\ promise[t].executor = "Y"
    /\ cur["Y"] = CoroRef(t) /\ frame[t] = "running"

\* C17: unwrap on a bound task returns the same coroutine in a Task together
\* with the executor it was bound to, empties the bound handle and unsets the
\* promise's executor, and runs nothing; a Task never holds a coroutine with
\* an executor and a TaskWithExecutor always does, so the result of unwrap
\* cannot be unwrapped again before it is bound again
C17_Unwrap ==
  [][/\ \A h \in Handles :
          unwrap(h) =>
            LET c == hcoro[h]
                n == FreeHandle
            IN /\ promise[c].executor \in Execs
               /\ hcoro'[n] = c /\ hkind'[n] = "Task"
               /\ hexec'[n] = promise[c].executor
               /\ hcoro'[h] = NullCoro /\ hkind'[h] = "none"
               /\ promise'[c] = [promise[c] EXCEPT !.executor = NoExecutor]
               /\ frame'[c] = "initial"
               /\ UNCHANGED <<frame, cur, queue, endedBy, cbLog, log>>
     /\ \A h \in Handles :
          hcoro'[h] # NullCoro =>
            /\ hkind'[h] = "Task" => promise'[hcoro'[h]].executor = NoExecutor
            /\ hkind'[h] = "TaskWithExecutor" => promise'[hcoro'[h]].executor \in Execs
    ]_vars

\* a bound task was unwrapped: a Task holds the coroutine, the executor was
\* returned beside it and the promise has none
C17_Witness ==
  \E h \in Handles :
    /\ hkind[h] = "Task"
    /\ hexec[h] = "X"
    /\ promise[hcoro[h]].executor = NoExecutor
    /\ frame[hcoro[h]] = "initial"

\* C18: start runs nothing of the task on the caller's stack: the step leaves
\* every thread as it was, appends the task's first resumption to the queue
\* of the bound executor and leaves the frame suspended before its body; the
\* caller's thread never runs a coroutine, and the body of a task launched
\* this way starts, and the callback is called, only in a step of a thread of
\* an executor
C18_LaunchDetached ==
  [][/\ \A h \in Handles, tok \in Tokens \cup {NoToken} :
          start(h, tok) =>
            LET c == hcoro[h]
                x == promise[c].executor
            IN /\ x \in Execs
               /\ queue'[x] = Append(queue[x], Work(c, "start", CallerCtx))
               /\ \A y \in Execs \ {x} : queue'[y] = queue[y]
               /\ frame'[c] = "scheduled"
               /\ promise'[c].result = EmptyTry
               /\ hcoro'[h] = NullCoro
               /\ UNCHANGED <<cur, endedBy, cbLog, log, safePointPassed>>
     /\ cur'[CallerThread] = NoHandle
     /\ \A c \in Coros :
          (frame[c] = "scheduled" /\ frame'[c] = "running") =>
            \E x \in Execs :
              /\ cur[x] = NoHandle /\ cur'[x] = CoroRef(c)
              /\ Len(queue'[x]) = Len(queue[x]) - 1
     /\ \A c \in Coros :
          cbLog'[c] # cbLog[c] => \E x \in Execs : cur[x] = DetachedRef(c)
    ]_vars

\* a task was launched and start has returned: its first resumption waits in
\* the queue of the bound executor, nothing has run
C18_Witness ==
  \E c \in Coros :
    /\ uses[c] = <<"launched">>
    /\ frame[c] = "scheduled"
    /\ queue[promise[c].executor] = <<Work(c, "start", CallerCtx)>>
    /\ \A t \in Threads : cur[t] = NoHandle

\* C19: startInlineUnsafe starts the body in the step of the call, on the
\* calling thread, and submits nothing; and when control returns from the
\* coroutines to the caller of startInlineUnsafe, the ambient request context
\* of that thread is the one that was ambient at the call, whatever the body
\* installed
C19_InlineStart ==
  [][/\ \A h \in Handles, tok \in Tokens \cup {NoToken} :
          startInlineUnsafe(h, tok) =>
            LET c == hcoro[h]
                x == promise[c].executor
            IN /\ cur'[x] = CoroRef(c) /\ frame'[c] = "running"
               /\ guard'[x].kind = "inline" /\ guard'[x].ctx = ambient[x]
               /\ UNCHANGED <<queue, ambient>>
     /\ \A x \in Execs :
          (guard[x].kind = "inline" /\ cur[x] # NoHandle /\ cur'[x] = NoHandle) =>
            /\ ambient'[x] = guard[x].ctx
            /\ guard'[x] = NoGuard
    ]_vars

\* a task started inline has installed a context of its own, has completed
\* without suspending, and its callback is about to run before control
\* returns to the caller of startInlineUnsafe
C19_Witness ==
  \E c \in Coros :
    /\ uses[c] = <<"launchedInline">>
    /\ cur["X"] = DetachedRef(c)
    /\ guard["X"].kind = "inline" /\ guard["X"].ctx = BaseCtx
    /\ ambient["X"] = BodyCtx

(* ---------------- liveness ---------------- *)
\* the steps of the executors' threads and of the coroutines on them: an
\* executor runs a unit of work of its queue, a body takes its next step, a
\* resumed coroutine goes on. The bodies are those that return a value, throw,
\* attach a finalizer, and await an unbound child or a child bound to Y
Progress ==
  \/ \E x \in Execs, i \in 1..NumCoros : RunWork(x, i)
  \/ \E c \in Coros : Return(c, "v42")
  \/ \E c \in Coros : Throw(c, "boom")
  \/ \E c \in Coros : AttachScopeExit(c)
  \/ \E c \in Coros, mode \in AwaitModes : CoAwaitTask(c, <<>>, mode)
  \/ \E c \in Coros : CoAwaitBound(c, "Y", "throw")
  \/ \E c \in Coros : WrapperAwait(c)
  \/ \E c \in Coros : FinalSuspend(c)
  \/ \E c \in Coros : ScopeExitRun(c)
  \/ \E c \in Coros, handled \in BOOLEAN : AwaitResume(c, handled)
  \/ \E c \in Coros : WrapperResume(c)
  \/ \E c \in Coros : ViaResume(c)
  \/ \E c \in Coros, t1 \in BOOLEAN : DetachedResume(c, t1, FALSE)

\* the caller makes one task, binds it and launches it
Launch ==
  \/ CreateTask(1)
  \/ \E h \in Handles : scheduleOn(h, "X")
  \/ \E h \in Handles : start(h, NoToken)
  \/ \E h \in Handles : startInlineUnsafe(h, NoToken)

LiveNext == Launch \/ Progress

\* the behaviours in which the executors run the work submitted to them and
\* bodies do not stop before their end
FairSpec == Init /\ [][LiveNext]_vars /\ WF_vars(Progress)

\* C20: a launched task's callback is eventually invoked, with or without a
\* finalizer attached, if the executors keep running submitted work and
\* bodies terminate
C20_CallbackEventually ==
  \A c \in Coros : (detachedAwaiter[c] = c) ~> Delivered(c)

\* a launched task with a finalizer attached has reached its terminal point,
\* the finalizer has run and the callback was invoked
C20_Witness ==
  \E c \in Coros :
    /\ Delivered(c)
    /\ uses[c] = <<"launched">>
    /\ log = <<<<"scopeExit", c>>, <<"callback", c>>>>

\* C21: in the step in which the ScopeExitTask attached to d is given its
\* context, the context is the continuation of d, the async stack frame of
\* d, the executor of d, and the error of the result of d if the result is an
\* error, no error if not; the ScopeExitTask is what runs next on the thread,
\* the frame of d stays linked and the continuation of d is not resumed
C21_FinalizerHandOff ==
  [][\A d \in Coros :
       (promise'[d].scopeExitContext.set /\ ~promise[d].scopeExitContext.set) =>
         LET ctx == promise'[d].scopeExitContext
             r == promise'[d].result
             k == promise[d].continuation
         IN /\ promise[d].scopeExit # 0
            /\ ctx.continuation = k /\ k # NoHandle
            /\ ctx.asyncFrame = d
            /\ ctx.executor = promise[d].executor /\ ctx.executor \in Execs
            /\ hasException(r) => ctx.ew = r.val /\ ctx.ew # NoException
            /\ ~hasException(r) => ctx.ew = NoException
            /\ ctx.ran = 0
            /\ \E thr \in Threads :
                 cur[thr] # ScopeExitRef(d) /\ cur'[thr] = ScopeExitRef(d)
            /\ promise[d].frameLinked /\ promise'[d].frameLinked
            /\ promise'[d].unlinkDepth = 0
            /\ promise'[d].continuation = k
            /\ \A thr \in Threads : cur'[thr] # k
            /\ k[1] = "coro" => frame'[k[2]] = frame[k[2]] /\ frame[k[2]] = "awaiting"
            /\ cbLog' = cbLog
    ]_vars

\* a coroutine with a ScopeExitTask attached ended with an error: the
\* ScopeExitTask holds the error and the continuation and is about to run,
\* the frame is still linked
C21_Witness ==
  \E d \in Coros : \E thr \in Threads :
    /\ cur[thr] = ScopeExitRef(d)
    /\ promise[d].scopeExitContext.set
    /\ promise[d].scopeExitContext.ran = 0
    /\ promise[d].scopeExitContext.ew = "boom"
    /\ promise[d].scopeExitContext.continuation[1] = "coro"
    /\ promise[d].frameLinked

\* the frame of c is popped in this step: the terminal dispatch of c (by
\* FinalAwaiter, or by the last ScopeExitTask of c) goes to its continuation
Popped(c) == promise[c].frameLinked /\ ~promise'[c].frameLinked /\ frame'[c] = "done"
\* the continuation of c routes errors itself: a Task coroutine that awaits
\* c with co_nothrow
RoutesErrors(k) == k[1] = "coro" /\ promise[k[2]].bypassExceptionThrowing = "ACTIVE"

\* C22: at the terminal point of a coroutine c with no ScopeExitTask, the
\* frame of c is unlinked while all its ancestors are still linked; if the
\* result is an error and the continuation has an error entry, that is
\* entered (the continuation's body is not resumed), else the continuation
\* itself is what runs next on the thread; never both
C22_UnlinkThenResume ==
  [][\A c \in Coros :
       (Popped(c) /\ promise[c].scopeExit = 0) =>
         LET k == promise[c].continuation
             viaError == hasException(promise'[c].result) /\ RoutesErrors(k)
             plain == \E thr \in Threads : cur[thr] # k /\ cur'[thr] = k
         IN /\ promise'[c].unlinkDepth = ChainLength(c)
            /\ promise'[c].unlinkDepth = LinkedDepth(promise, c)
            /\ viaError =>
                 /\ ~plain
                 /\ frame'[k[2]] = "done"
                 /\ hasException(promise'[k[2]].result)
            /\ ~viaError =>
                 /\ plain
                 /\ k[1] = "coro" =>
                      /\ frame'[k[2]] = "resumed"
                      /\ promise'[k[2]].result = EmptyTry
                      /\ promise'[k[2]].frameLinked
    ]_vars

\* a child without a ScopeExitTask ended with an error, its frame was
\* unlinked at depth 2 and its parent, which awaits with co_awaitTry, is
\* resumed as the plain continuation
C22_Witness ==
  \E c, p \in Coros : \E thr \in Threads :
    /\ promise[c].continuation = CoroRef(p)
    /\ frame[c] = "done" /\ hasException(promise[c].result)
    /\ promise[c].scopeExit = 0
    /\ ~promise[c].frameLinked /\ promise[c].unlinkDepth = 2
    /\ frame[p] = "resumed" /\ cur[thr] = CoroRef(p)
    /\ awaitMode[p] = "try"

\* C23: when the terminal dispatch of a child that ended with error e goes
\* to a parent awaiting it with co_nothrow, the parent's body is not resumed:
\* in the same step the parent's result becomes error(e) and the parent's own
\* terminal dispatch is made (its ScopeExitTask gets its context, or its
\* frame is popped); when the parent does not await with co_nothrow it is
\* resumed at the await with no result of its own, and await_resume then
\* throws e into its body, which ends with e or handles it
C23_DirectErrorRouting ==
  [][/\ \A k, p \in Coros :
          (Popped(k) /\ promise[k].continuation = CoroRef(p)
             /\ hasException(promise'[k].result)) =>
            IF awaitMode[p] = "nothrow"
              THEN /\ promise[p].bypassExceptionThrowing = "ACTIVE"
                   /\ frame'[p] = "done"
                   /\ \A thr \in Threads : cur'[thr] # CoroRef(p)
                   /\ hasException(promise'[p].result)
                   /\ endedBy'[p] = Ended("nothrow", "error", endedBy'[k].val)
                   /\ IF promise[p].scopeExit # 0
                        THEN /\ promise'[p].scopeExitContext.set
                             /\ promise'[p].scopeExitContext.ew = endedBy'[k].val
                             /\ promise'[p].frameLinked
                        ELSE ~promise'[p].frameLinked
              ELSE /\ frame'[p] = "resumed"
                   /\ \E thr \in Threads : cur'[thr] = CoroRef(p)
                   /\ promise'[p].result = EmptyTry
                   /\ endedBy'[p] = NotEnded
     /\ \A p \in Coros : \A handled \in BOOLEAN :
          (AwaitResume(p, handled) /\ hasException(promise[awaiter[p]].result)) =>
            IF awaitMode[p] = "try" THEN frame'[p] = "running"
            ELSE IF handled THEN frame'[p] = "running"
            ELSE /\ frame'[p] = "finishing"
                 /\ promise'[p].result = ErrorTry(promise[awaiter[p]].result.val)
    ]_vars

\* three coroutines in a chain, both awaits with co_nothrow: the innermost
\* threw, the two awaiting bodies were never resumed and the error is the
\* result of the outermost, whose continuation runs next
C23_Witness ==
  \E a, b, c \in Coros :
    /\ promise[c].continuation = CoroRef(b) /\ promise[b].continuation = CoroRef(a)
    /\ endedBy[c].how = "throw"
    /\ endedBy[b] = Ended("nothrow", "error", "boom")
    /\ endedBy[a] = Ended("nothrow", "error", "boom")
    /\ promise[a].result = ErrorTry("boom")
    /\ frame[a] = "done" /\ frame[b] = "done" /\ frame[c] = "done"

(* ---------------- attaching more than one ScopeExitTask ---------------- *)
\* one launched task whose bodies may attach up to MaxChain ScopeExitTasks
AttachNext ==
  \/ Launch
  \/ Progress
  \/ \E c \in Coros : AttachScopeExitAgain(c)

AttachSpec == Init /\ [][AttachNext]_vars

\* C24 (as the code has it): every attach stores the new ScopeExitTask in
\* the slot, whether the slot was empty or not, and returns what the slot
\* held before
C24_AttachReplaces ==
  [][\A c \in Coros :
       ((promise'[c].scopeExit # promise[c].scopeExit /\ frame'[c] # "destroyed")
          \/ AttachScopeExit(c) \/ AttachScopeExitAgain(c)) =>
         /\ IsRunning(c)
         /\ promise'[c].scopeExit = promise[c].scopeExit + 1
         /\ promise'[c].scopeExitPrevious = promise[c].scopeExit
         /\ promise'[c] = [promise[c] EXCEPT
                             !.scopeExit = promise'[c].scopeExit,
                             !.scopeExitPrevious = promise'[c].scopeExitPrevious]
    ]_vars

\* C24 as stated: once the slot holds a ScopeExitTask, no step replaces it
C24_SetAtMostOnce ==
  [][\A c \in Coros :
       (promise[c].scopeExit # 0 /\ frame'[c] # "destroyed") =>
         promise'[c].scopeExit = promise[c].scopeExit
    ]_vars

\* a body has attached a second ScopeExitTask, which is now in the slot
C24_Witness ==
  \E c \in Coros :
    /\ promise[c].scopeExit = 2
    /\ promise[c].scopeExitPrevious = 1
    /\ frame[c] = "running"


(* ---------------- C25 ---------------- *)
\* the ways a body reaches its terminal point, each with its write of result_
EndPaths == {"co_return", "co_return_try", "throw", "co_error", "co_result",
             "cancelled", "nothrow", "forwarded"}
\* the coroutine has started and its body has not reached the terminal point
BeforeTerminalPoint(c) == Live(c) /\ ~AtTerminalPoint(c)

\* in this step the exception of c's error result is moved out of it, into
\* the result of the co_nothrow parent that awaits c
MovedOut(c) ==
  /\ promise'[c].result = ErrorTry(NoException)
  /\ Popped(c)
  /\ RoutesErrors(promise[c].continuation)
  /\ endedBy'[promise[c].continuation[2]].how = "nothrow"

\* C25: the result of a coroutine is empty as long as its body has not
\* reached the terminal point and is there from then on; it is written in
\* the one step that takes the coroutine to its terminal point (co_return,
\* exception, co_yield co_error / co_result, cancellation at a safe point,
\* error routed from a co_nothrow child) and never written again while the
\* frame exists: it stays as it is, except that the exception of an error
\* result is moved out when it is routed to a co_nothrow parent
C25_ResultWrittenOnce ==
  [][\A c \in Coros :
       /\ BeforeTerminalPoint(c) => promise[c].result = EmptyTry
       /\ AtTerminalPoint(c) => promise[c].result # EmptyTry
       /\ (promise[c].result = EmptyTry /\ promise'[c].result # EmptyTry) =>
            /\ BeforeTerminalPoint(c)
            /\ frame'[c] \in {"finishing", "done"}
            /\ endedBy'[c].how \in EndPaths
            /\ LET written == [tag |-> endedBy'[c].tag, val |-> endedBy'[c].val]
               IN \/ promise'[c].result = written
                  \/ hasException(written) /\ MovedOut(c)
       /\ (promise[c].result # EmptyTry /\ frame'[c] # "destroyed") =>
            /\ \/ promise'[c].result = promise[c].result
               \/ hasException(promise[c].result) /\ MovedOut(c)
            /\ frame'[c] \in {"finishing", "done"}
     ]_vars

\* a parent ended by the error of its co_nothrow child, and the child ended
\* by a cancellation at a safe point, both with their results in place
C25_Witness ==
  \E c, d \in Coros :
    /\ c # d /\ awaiter[c] = d
    /\ frame[c] = "done" /\ endedBy[c].how = "nothrow"
    /\ frame[d] = "done" /\ endedBy[d].how = "cancelled"
    /\ promise[d].result = ErrorTry(NoException)
    /\ promise[c].result = ErrorTry(OperationCancelled)

(* ---------------- C26 ---------------- *)
\* C26: when a bound task is awaited, the unit of work submitted for it
\* carries the request context that is ambient on the awaiting thread at the
\* await; when an executor thread takes a unit of work, the context the unit
\* carries becomes ambient and the one ambient before is kept by the unit's
\* scope guard; nothing replaces that guard while the unit runs, and when the
\* thread is released the context kept by the guard is ambient again,
\* whatever the coroutines installed in between
C26_ContextAcrossBoundAwait ==
  [][/\ \A c \in Coros, y \in Execs, mode \in {"throw", "try"} :
          CoAwaitBound(c, y, mode) =>
            \E x \in Execs :
              /\ cur[x] = CoroRef(c)
              /\ LET w == awaiter'[c]
                     q == queue'[promise'[w].executor]
                 IN /\ Len(q) > 0
                    /\ q[Len(q)] = Work(w, "start", ambient[x])
                    /\ promise'[w].continuation = ViaRef(c, ambient[x])
     /\ \A x \in Execs, i \in 1..NumCoros :
          RunWork(x, i) =>
            /\ ambient'[x] = queue[x][i].ctx
            /\ cur'[x] = CoroRef(queue[x][i].coro)
            /\ guard'[x].kind = "work" /\ guard'[x].armed
            /\ guard'[x].ctx = ambient[x]
     /\ \A x \in Execs :
          guard[x].kind = "work" =>
            /\ cur[x] # NoHandle
            /\ cur'[x] # NoHandle => guard'[x] = guard[x]
            /\ cur'[x] = NoHandle =>
                 /\ ambient'[x] = guard[x].ctx
                 /\ guard'[x] = NoGuard
    ]_vars

\* the wrapper coroutine of a task bound to Y, awaited by a coroutine on X
\* that had installed a context of its own, is in its first resumption on
\* Y's thread: the captured context is ambient there, the thread's own is
\* kept by the guard
C26_Witness ==
  \E c, w \in Coros :
    /\ awaiter[c] = w /\ frame[c] = "awaiting"
    /\ promise[w].continuation = ViaRef(c, BodyCtx)
    /\ cur["Y"] = CoroRef(w) /\ frame[w] = "running"
    /\ ambient["Y"] = BodyCtx
    /\ guard["Y"] = WorkGuard(BaseCtx)
    /\ ambient["X"] = BaseCtx

(* ---------------- C27 ---------------- *)
\* h is launched with token tok in this step, by start or startInlineUnsafe
Launched(h, tok) == start(h, tok) \/ startInlineUnsafe(h, tok)
LaunchTokens == Tokens \cup {NoToken}

\* C27: start(cb, tok) and startInlineUnsafe(cb, tok) go through
\* setCancelToken before the body's first step: after the launch the
\* coroutine's token is fixed; it is tok if no token had been set on the task
\* (co_withCancellation) before, else the token set before; and a launched
\* coroutine that comes to a safe point with cancellation requested on its
\* token ends there with OperationCancelled
C27_LaunchSetsTokenOnce ==
  [][/\ \A h \in Handles, tok \in LaunchTokens :
          Launched(h, tok) =>
            LET c == hcoro[h]
            IN /\ frame[c] = "initial" /\ promise[c].result = EmptyTry
               /\ ~safePointPassed'[c]
               /\ promise'[c].hasCancelTokenOverride
               /\ promise'[c].cancelToken =
                    IF promise[c].hasCancelTokenOverride
                      THEN promise[c].cancelToken
                      ELSE tok
     /\ \A c \in Coros :
          (detachedAwaiter[c] = c /\ Live(c) /\ frame'[c] # "destroyed") =>
            /\ promise'[c].hasCancelTokenOverride
            /\ promise'[c].cancelToken = promise[c].cancelToken
            /\ (SafePoint(c) /\ promise[c].cancelToken \in cancelled) =>
                 /\ frame'[c] = "finishing"
                 /\ promise'[c].result = ErrorTry(OperationCancelled)
    ]_vars

\* the statement as given: after a launch with tok the token is tok
C27_TokenIsLaunchToken ==
  [][\A h \in Handles, tok \in LaunchTokens :
       Launched(h, tok) => promise'[hcoro[h]].cancelToken = tok]_vars

\* a launched task on whose token cancellation was requested has ended at
\* its first safe point, and the launch wrapper is about to hand
\* OperationCancelled to the callback
C27_Witness ==
  \E c \in Coros :
    /\ uses[c] = <<"launched">>
    /\ promise[c].cancelToken \in Tokens /\ promise[c].cancelToken \in cancelled
    /\ endedBy[c].how = "cancelled" /\ frame[c] = "done"
    /\ promise[c].result = ErrorTry(OperationCancelled)
    /\ \E t \in Threads : cur[t] = DetachedRef(c)

(* ---------------- C28 ---------------- *)
\* an exception left the body of the launch wrapper of c: it is given to the
\* unhandled_exception of InlineTaskDetached's promise, which ends the
\* program; it is not rethrown into the executor that resumed the wrapper
LeftWrapperBody(c) == escaped[c]

Referenced(c) ==
  \/ Owners(c) # {}
  \/ \E t \in Threads : cur[t] \in {CoroRef(c), ScopeExitRef(c)}
  \/ \E x \in Execs : \E i \in 1..Len(queue[x]) : queue[x][i].coro = c
  \/ \E d \in Coros : Live(d) /\ promise[d].continuation = CoroRef(c)

\* C29: a frame is released once and not touched afterwards: a released
\* frame stays released and nothing refers to it; a frame is released only
\* while it is suspended before its body or at its final suspend point, on no
\* thread and in no queue, by the object that holds it (a handle object
\* that is destroyed or assigned to while it holds an unstarted task, the
\* awaiter whose await_resume consumes the result and empties itself, or the
\* awaiter inside a frame that is destroyed); everything an owner refers to
\* is allocated; and once the callback of a launched task has run no frame
\* is allocated any more
C29_ReleasedOnce ==
  [][\A c \in Coros :
       /\ frame[c] = "destroyed" =>
            /\ frame'[c] = "destroyed"
            /\ promise'[c] = promise[c]
       /\ frame'[c] = "destroyed" => ~Referenced(c)'
       /\ (Live(c) /\ frame'[c] = "destroyed") =>
            /\ frame[c] \in {"initial", "done"}
            /\ \A t \in Threads : cur[t] # CoroRef(c)
            /\ \A x \in Execs : \A i \in 1..Len(queue[x]) : queue[x][i].coro # c
            /\ Cardinality(Owners(c)) = 1
            /\ \A o \in Owners(c) :
                 \/ o[1] = "handle" /\ hcoro'[o[2]] # c /\ frame[c] = "initial"
                 \/ o[1] = "awaiter" /\ awaiter'[o[2]] = NullCoro
                 \/ o[1] = "detached" /\ detachedAwaiter'[o[2]] = NullCoro
                 \/ o[1] = "operand" /\ frame'[o[2]] = "destroyed"
       /\ (Owners(c) # {})' => Live(c)'
       /\ Delivered(c)' => \A d \in Coros : ~Live(d)'
     ]_vars

\* a launched chain of three has completed and its callback has run: every
\* frame of it has been released
C29_Witness ==
  \E c \in Coros :
    /\ uses[c] = <<"launched">> /\ Delivered(c)
    /\ \A d \in Coros : frame[d] = "destroyed" /\ ~Referenced(d)
    /\ \A d \in Coros \ {c} : uses[d] = <<"awaited">>

====
